---- MODULE Spec2Model ----
(***************************************************************************)
(* InvokeAI database tools: the images reindex tool                        *)
(* (Restore_Images_DB_v2.1.py) and the two board reclassification tools    *)
(* (Convert_Board_to_Assets_v1.0.py, Convert_Assets_to_Board_v1.0.py),     *)
(* as state machines over one SQLite catalog (images, boards,              *)
(* board_images) and the thumbnail files on disk.                          *)
(***************************************************************************)
EXTENDS Naturals, FiniteSets

\* Number of PNG files under outputs/images (file k sorts k-th in the scan).
MaxFiles == 2

\* Number of distinct board ids (uuid4 values) the model can hand out.
MaxBoards == 3

Files == 1..MaxFiles

BoardIds == 1..MaxBoards

\* The two racing reindex processes of SpecRace.
Procs == {1, 2}

VARIABLES
    images,     \* committed rows of table images
    boards,     \* committed rows of table boards
    links,      \* committed rows of table board_images
    txn,        \* image rows written on the reindex connection, not yet committed
    thumbs,     \* content of the thumbnail file of each image ("none": no file)
    thumbDir,   \* whether the thumbnails directory exists
    run,        \* the reindex process: position, flags, board id, current file
    fstate,     \* per file, its stage in the current reindex run
    open,       \* per file, whether its Pillow image handle is open
    log,        \* actions performed (real run) or printed as [DRY] (dry run)
    startCat,   \* image names in the catalog when the current run started
    crashIns,   \* image names whose insert_image returned in the run that crashed just before
    lastDry,    \* report of the error-free dry run, same flags, directly before this real run
    rc,         \* the last reclassification tool invocation
    race        \* the two racing ensure_import_board callers of SpecRace

vars == <<images, boards, links, txn, thumbs, thumbDir, run, fstate, open, log,
          startCat, crashIns, lastDry, rc, race>>

dbVars == <<images, boards, links>>

diskVars == <<thumbs, thumbDir>>

restoreVars == <<txn, run, fstate, open, log, startCat, crashIns, lastDry>>

----------------------------------------------------------------------------
\* Names and rows

\* f"Recovered {today}" on the one calendar day the model covers.
Today == "Recovered 05-11-26"

BoardNames == {Today, "RECOVERED 05-11-26", "Assets"}

\* SQLite LOWER() on the board names and selectors of the model.
Lower(n) ==
    CASE n = "Recovered 05-11-26" -> "recovered 05-11-26"
      [] n = "RECOVERED 05-11-26" -> "recovered 05-11-26"
      [] n = "Assets" -> "assets"
      [] n = "ASSETS" -> "assets"
      [] OTHER -> n

\* Whether the PNG's invokeai_metadata carries a parseable "created" string.
HasMetaTime(f) == f % 2 = 1

\* detect_created_at: the metadata timestamp when one parses, else the mtime.
detect_created_at(f) == IF HasMetaTime(f) THEN "meta" ELSE "mtime"

\* The row insert_image writes for image f.
NewRow(f) ==
    [name |-> f, cat |-> "general", origin |-> "internal", inter |-> 0,
     created |-> detect_created_at(f), updated |-> detect_created_at(f)]

\* The row the application itself may have left in the catalog for image f.
AppRow(f) ==
    IF f % 2 = 1
    THEN [name |-> f, cat |-> "general", origin |-> "internal", inter |-> 1,
          created |-> "app", updated |-> "app"]
    ELSE [name |-> f, cat |-> "user", origin |-> "external", inter |-> 0,
          created |-> "app", updated |-> "edit"]

Names(rows) == {r.name : r \in rows}

\* image_exists with a lookup that never finds the row.
image_exists_never(f) == FALSE

\* SELECT 1 FROM images WHERE image_name = ?  (read through the connection)
image_exists(f) == f \in Names(images) \cup Names(txn)

\* The board lookup with a name no row carries (the time of day appended).
BoardLookupMiss(n) == {}

\* SELECT board_id FROM boards WHERE board_name = ?  (exact match)
BoardLookup(n) == {b.id : b \in {x \in boards : x.name = n}}

\* Ids no new uuid4 may collide with: those in boards and those a process holds.
UsedIds == {b.id : b \in boards} \cup {run.board} \cup {race[p].board : p \in Procs}

\* str(uuid4()): a fresh id.
uuid4 == CHOOSE i \in BoardIds \ UsedIds : \A j \in BoardIds \ UsedIds : i <= j

\* conn.commit(): the connection's pending image rows reach the database file.
Commit == images' = images \cup txn /\ txn' = {}

\* Leaving the connection by an exception or a kill: pending rows are lost.
Rollback == images' = images /\ txn' = {}

Entry(o, f) == [op |-> o, f |-> f]

Inserted(l) == {e.f : e \in {x \in l : x.op = "insert"}}

Linked(l) == {e.f : e \in {x \in l : x.op = "link"}}

----------------------------------------------------------------------------
\* Initial states: a catalog the application left behind, no tool running.

NoRun == [pc |-> "idle", dry |-> FALSE, verbose |-> FALSE, gen |-> FALSE,
          board |-> 0, i |-> 1]

NoDry == [valid |-> FALSE, log |-> {}]

NoRc == [pc |-> "idle", tool |-> "assets", name |-> Today, dry |-> FALSE,
         exit |-> 0, board |-> 0, names |-> {}, updated |-> 0]

NoRace == [p \in Procs |-> [pc |-> "idle", dry |-> FALSE, found |-> 0, board |-> 0]]

InitDisk ==
    /\ thumbs \in [Files -> {"none", "old"}]
    /\ thumbDir \in BOOLEAN
    /\ (\E f \in Files : thumbs[f] # "none") => thumbDir

InitCatalog ==
    /\ \E S \in SUBSET Files : images = {AppRow(f) : f \in S}
    /\ \/ boards = {} /\ links = {}
       \/ \E n \in BoardNames :
             /\ boards = {[id |-> 1, name |-> n]}
             /\ links = {<<1, f>> : f \in Names(images)}

InitTools ==
    /\ txn = {}
    /\ run = NoRun
    /\ fstate = [f \in Files |-> "unseen"]
    /\ open = [f \in Files |-> FALSE]
    /\ log = {}
    /\ startCat = {}
    /\ crashIns = {}
    /\ lastDry = NoDry
    /\ rc = NoRc

Init == InitCatalog /\ InitDisk /\ InitTools /\ race = NoRace

----------------------------------------------------------------------------
\* The reindex tool, Restore_Images_DB_v2.1.py

Running == run.pc \in {"board", "loop"}

Cur == run.i

AtFile(st) == run.pc = "loop" /\ Cur \in Files /\ fstate[Cur] = st

NextFile == run' = [run EXCEPT !.i = @ + 1]

\* An exception leaves main(): the with-block rolls back and the process ends.
Abort == run' = [run EXCEPT !.pc = "aborted"] /\ Rollback

\* main() is entered with the parsed flags.
Start(d, v, g) ==
    /\ ~Running
    /\ run' = [pc |-> "board", dry |-> d, verbose |-> v, gen |-> g, board |-> 0, i |-> 1]
    /\ fstate' = [f \in Files |-> "unseen"]
    /\ open' = [f \in Files |-> FALSE]
    /\ log' = {}
    /\ startCat' = Names(images)
    /\ lastDry' = IF /\ run.pc = "done" /\ run.dry /\ ~d /\ v = run.verbose /\ g = run.gen
                     /\ \A f \in Files : fstate[f] # "errored"
                  THEN [valid |-> TRUE, log |-> log]
                  ELSE NoDry
    /\ crashIns' = IF run.pc = "crashed" /\ ~run.dry THEN Inserted(log) ELSE {}
    /\ UNCHANGED <<dbVars, diskVars, txn, rc, race>>

\* What ensure_import_board does once the lookup gave `found` (a set of ids):
\* reuse a found row's id, else make a uuid and, unless dry, insert and commit.
BoardEffect(found, dry, verbose) ==
    IF found # {}
    THEN /\ \E b \in found : run' = [run EXCEPT !.pc = "loop", !.board = b]
         /\ UNCHANGED <<boards, log, images, txn>>
    ELSE /\ run' = [run EXCEPT !.pc = "loop", !.board = uuid4]
         /\ IF dry
            THEN /\ log' = IF verbose THEN log \cup {Entry("board", 0)} ELSE log
                 /\ UNCHANGED <<boards, images, txn>>
            ELSE /\ boards' = boards \cup {[id |-> uuid4, name |-> Today]}
                 /\ Commit
                 /\ log' = log \cup {Entry("board", 0)}

ensure_import_board ==
    /\ run.pc = "board"
    /\ BoardIds \ UsedIds # {}
    /\ BoardEffect(BoardLookup(Today), run.dry, run.verbose)
    /\ UNCHANGED <<links, diskVars, fstate, open, startCat, crashIns, lastDry, rc, race>>

\* image_exists is true: [SKIP], continue.
SkipExisting ==
    /\ AtFile("unseen")
    /\ image_exists(Cur)
    /\ fstate' = [fstate EXCEPT ![Cur] = "skipped"]
    /\ NextFile
    /\ UNCHANGED <<dbVars, diskVars, txn, open, log, startCat, crashIns, lastDry, rc, race>>

\* load_png_metadata: Image.open succeeds, or raises and the file is passed over.
load_png_metadata(ok) ==
    /\ AtFile("unseen")
    /\ ~image_exists(Cur)
    /\ IF ok
       THEN /\ fstate' = [fstate EXCEPT ![Cur] = "opened"]
            /\ open' = [open EXCEPT ![Cur] = TRUE]
            /\ run' = run
       ELSE /\ fstate' = [fstate EXCEPT ![Cur] = "errored"]
            /\ open' = open
            /\ NextFile
    /\ UNCHANGED <<dbVars, diskVars, txn, log, startCat, crashIns, lastDry, rc, race>>

\* detect_created_at, called outside any try: path.stat() may raise.
DetectCreatedAt(ok) ==
    /\ AtFile("opened")
    /\ IF ok
       THEN /\ fstate' = [fstate EXCEPT ![Cur] = "stamped"]
            /\ UNCHANGED <<run, images, txn>>
       ELSE /\ fstate' = [fstate EXCEPT ![Cur] = "errored"]
            /\ Abort
    /\ UNCHANGED <<boards, links, diskVars, open, log, startCat, crashIns, lastDry, rc, race>>

\* insert_image without its conn.commit(): the row stays in the transaction.
insert_image_nocommit(f, dry) ==
    IF dry
    THEN /\ log' = log \cup {Entry("insert", f)}
         /\ UNCHANGED <<images, txn>>
    ELSE /\ images' = images
         /\ txn' = txn \cup {NewRow(f)}
         /\ log' = log \cup {Entry("insert", f)}

\* insert_image: print the [DRY][INSERT] line, or INSERT the row and commit.
insert_image(f, dry) ==
    IF dry
    THEN /\ log' = log \cup {Entry("insert", f)}
         /\ UNCHANGED <<images, txn>>
    ELSE /\ images' = images \cup txn \cup {NewRow(f)}
         /\ txn' = {}
         /\ log' = log \cup {Entry("insert", f)}

\* The except branch of main(): [ERR], img.close(), continue.
InsertFailed ==
    /\ fstate' = [fstate EXCEPT ![Cur] = "errored"]
    /\ open' = [open EXCEPT ![Cur] = FALSE]
    /\ NextFile

\* The try block's first call; a real INSERT may raise (storage error).
InsertImage(ok) ==
    /\ AtFile("stamped")
    /\ IF ok
       THEN /\ insert_image(Cur, run.dry)
            /\ fstate' = [fstate EXCEPT ![Cur] = "inserted"]
            /\ UNCHANGED <<run, open>>
       ELSE /\ ~run.dry
            /\ InsertFailed
            /\ UNCHANGED <<images, txn, log>>
    /\ UNCHANGED <<boards, links, diskVars, startCat, crashIns, lastDry, rc, race>>

\* add_to_board with the two values of its INSERT in the wrong order.
add_to_board_swapped(b, f, dry, verbose) ==
    IF dry
    THEN /\ log' = IF verbose THEN log \cup {Entry("link", f)} ELSE log
         /\ UNCHANGED <<links, images, txn>>
    ELSE /\ links' = links \cup {<<f, b>>}
         /\ Commit
         /\ log' = log \cup {Entry("link", f)}

\* add_to_board: print when dry and verbose, or INSERT OR IGNORE and commit.
add_to_board(b, f, dry, verbose) ==
    IF dry
    THEN /\ log' = IF verbose THEN log \cup {Entry("link", f)} ELSE log
         /\ UNCHANGED <<links, images, txn>>
    ELSE /\ links' = links \cup {<<b, f>>}
         /\ Commit
         /\ log' = log \cup {Entry("link", f)}

\* The try block's second call; without --gen-thumbs the loop moves on.
AddToBoard(ok) ==
    /\ AtFile("inserted")
    /\ IF ok
       THEN /\ add_to_board(run.board, Cur, run.dry, run.verbose)
            /\ fstate' = [fstate EXCEPT ![Cur] = "linked"]
            /\ open' = open
            /\ IF run.gen THEN run' = run ELSE NextFile
       ELSE /\ ~run.dry
            /\ InsertFailed
            /\ UNCHANGED <<links, images, txn, log>>
    /\ UNCHANGED <<boards, diskVars, startCat, crashIns, lastDry, rc, race>>

\* ensure_thumbnail without the thumb_path.exists() return.
ThumbMissingAlways(f) == TRUE

\* ensure_thumbnail gets past its two early returns (thumbnail exists; dry run).
\* not thumb_path.exists()
ThumbMissing(f) == thumbs[f] = "none"

\* ensure_thumbnail without the dry_run return.
ThumbWritesDry(f, dry) == ThumbMissing(f)

ThumbWrites(f, dry) == ThumbMissing(f) /\ ~dry

\* How far ensure_thumbnail's writing part gets: mkdir raises, convert/resize
\* raises after mkdir, save raises leaving a partial file, or all succeed.
ThumbOutcomes == {"ok", "mkdir", "convert", "save"}

ensure_thumbnail(f, dry, verbose, out) ==
    IF ThumbWrites(f, dry)
    THEN /\ thumbDir' = (thumbDir \/ out # "mkdir")
         /\ thumbs' = [thumbs EXCEPT ![f] =
                          CASE out = "ok" -> "new"
                            [] out = "save" -> "partial"
                            [] OTHER -> @]
         /\ log' = IF out = "ok" THEN log \cup {Entry("thumb", f)} ELSE log
    ELSE /\ out = "ok"
         /\ log' = IF ThumbMissing(f) /\ dry /\ verbose
                   THEN log \cup {Entry("thumb", f)}
                   ELSE log
         /\ UNCHANGED <<thumbs, thumbDir>>

\* if args.gen_thumbs: ensure_thumbnail(...), called outside any try with the
\* open img, which ensure_thumbnail does not close (close_img stays False).
EnsureThumbnail(out) ==
    /\ AtFile("linked")
    /\ run.gen
    /\ ensure_thumbnail(Cur, run.dry, run.verbose, out)
    /\ IF out = "ok"
       THEN /\ fstate' = [fstate EXCEPT ![Cur] = "thumbnailed"]
            /\ NextFile
            /\ UNCHANGED <<images, txn>>
       ELSE /\ fstate' = [fstate EXCEPT ![Cur] = "errored"]
            /\ Abort
    /\ UNCHANGED <<boards, links, open, startCat, crashIns, lastDry, rc, race>>

\* The for loop is exhausted: the with-block commits and main() returns.
Finish ==
    /\ run.pc = "loop"
    /\ Cur \notin Files
    /\ run' = [run EXCEPT !.pc = "done"]
    /\ Commit
    /\ UNCHANGED <<boards, links, diskVars, fstate, open, log, startCat, crashIns,
                   lastDry, rc, race>>

\* The process is interrupted (killed, power loss): uncommitted rows are lost.
Crash ==
    /\ Running
    /\ run' = [run EXCEPT !.pc = "crashed"]
    /\ Rollback
    /\ UNCHANGED <<boards, links, diskVars, fstate, open, log, startCat, crashIns,
                   lastDry, rc, race>>

RestoreNext ==
    \/ \E d, v, g \in BOOLEAN : Start(d, v, g)
    \/ ensure_import_board
    \/ SkipExisting
    \/ \E ok \in BOOLEAN : load_png_metadata(ok)
    \/ \E ok \in BOOLEAN : DetectCreatedAt(ok)
    \/ \E ok \in BOOLEAN : InsertImage(ok)
    \/ \E ok \in BOOLEAN : AddToBoard(ok)
    \/ \E out \in ThumbOutcomes : EnsureThumbnail(out)
    \/ Finish
    \/ Crash

----------------------------------------------------------------------------
\* The reclassification tools, Convert_Board_to_Assets_v1.0.py ("assets") and
\* Convert_Assets_to_Board_v1.0.py ("general")

Tools == {"assets", "general"}

\* The --board-name values tried.
Selectors == {Today, "ASSETS", "Missing"}

\* The two fixed values of the tool's UPDATE.
TargetCategory(tool) == IF tool = "assets" THEN "user" ELSE "general"

TargetOrigin(tool) == IF tool = "assets" THEN "external" ELSE "internal"

\* get_board_id_by_name returning None for a missing board instead of raising.
get_board_id_or_none(n) ==
    IF {x \in boards : Lower(x.name) = Lower(n)} = {}
    THEN {0}
    ELSE {b.id : b \in {x \in boards : Lower(x.name) = Lower(n)}}

\* SELECT board_id FROM boards WHERE LOWER(board_name) = LOWER(?): the ids
\* fetchone() may return (no ORDER BY); empty when the tool raises SystemExit.
get_board_id_by_name(n) == {b.id : b \in {x \in boards : Lower(x.name) = Lower(n)}}

\* SELECT image_name FROM board_images WHERE board_id = ?
get_images_for_board(b) == {l[2] : l \in {x \in links : x[1] = b}}

\* The UPDATE without its WHERE clause.
mark_images_all(tool, names) ==
    {[r EXCEPT !.cat = TargetCategory(tool), !.origin = TargetOrigin(tool)] : r \in images}

\* executemany(UPDATE images SET image_category, image_origin WHERE image_name = ?)
mark_images(tool, names) ==
    {IF r.name \in names
     THEN [r EXCEPT !.cat = TargetCategory(tool), !.origin = TargetOrigin(tool)]
     ELSE r : r \in images}

RcResult(tool, n, dry, exit, b, names, updated) ==
    [pc |-> "exited", tool |-> tool, name |-> n, dry |-> dry, exit |-> exit,
     board |-> b, names |-> names, updated |-> updated]

\* main() of either tool, from connect to exit; ok: the bulk UPDATE does not raise.
Reclassify(tool, n, dry, ok) ==
    /\ rc.pc = "idle"
    /\ IF get_board_id_by_name(n) = {}
       THEN /\ ok
            /\ rc' = RcResult(tool, n, dry, 1, 0, {}, 0)
            /\ images' = images
       ELSE \E b \in get_board_id_by_name(n) :
              LET names == get_images_for_board(b) IN
              IF names = {}
              THEN /\ ok
                   /\ rc' = RcResult(tool, n, dry, 0, b, names, 0)
                   /\ images' = images
              ELSE IF dry
              THEN /\ ok
                   /\ rc' = RcResult(tool, n, dry, 0, b, names, Cardinality(names))
                   /\ images' = images
              ELSE IF ok
              THEN /\ images' = mark_images(tool, names)
                   /\ rc' = RcResult(tool, n, dry, 0, b, names,
                                     Cardinality(names \cap Names(images)))
              ELSE /\ rc' = RcResult(tool, n, dry, 1, b, names, 0)
                   /\ images' = images
    /\ UNCHANGED <<boards, links, diskVars, restoreVars, race>>

\* The tool's process is gone.
RcExit ==
    /\ rc.pc = "exited"
    /\ rc' = NoRc
    /\ UNCHANGED <<dbVars, diskVars, restoreVars, race>>

ReclassNext ==
    \/ \E tool \in Tools, n \in Selectors, dry, ok \in BOOLEAN : Reclassify(tool, n, dry, ok)
    \/ RcExit

\* Catalogs the reclassification tools may be pointed at: rows left by the
\* application or by the reindex tool, up to two boards (same-named ones and
\* names differing in case included), any links from them to cataloged images.
InitReclass ==
    /\ \E k \in [Files -> 0..2] :
          images = {AppRow(f) : f \in {g \in Files : k[g] = 1}}
                   \cup {NewRow(f) : f \in {g \in Files : k[g] = 2}}
    /\ \E nm \in [{1, 2} -> BoardNames \cup {"-"}] :
          boards = {[id |-> i, name |-> nm[i]] : i \in {j \in {1, 2} : nm[j] # "-"}}
    /\ links \in SUBSET ({b.id : b \in boards} \X Names(images))
    /\ thumbs = [f \in Files |-> "none"]
    /\ thumbDir = FALSE
    /\ InitTools
    /\ race = NoRace

----------------------------------------------------------------------------
\* Two reindex processes started on the same day against the same database,
\* each followed through ensure_import_board and the link of its own image p.

\* cur.execute(SELECT ...); row = cur.fetchone(); if row: return board_id
RaceLookup(p) ==
    /\ race[p].pc = "lookup"
    /\ IF BoardLookup(Today) # {}
       THEN \E b \in BoardLookup(Today) :
               race' = [race EXCEPT ![p].pc = "link", ![p].found = b, ![p].board = b]
       ELSE race' = [race EXCEPT ![p].pc = "create"]
    /\ UNCHANGED <<dbVars, diskVars, restoreVars, rc>>

\* board_id = str(uuid4()); unless dry, INSERT INTO boards and commit.
RaceCreate(p) ==
    /\ race[p].pc = "create"
    /\ BoardIds \ UsedIds # {}
    /\ race' = [race EXCEPT ![p].pc = "link", ![p].board = uuid4]
    /\ boards' = IF race[p].dry THEN boards
                 ELSE boards \cup {[id |-> uuid4, name |-> Today]}
    /\ UNCHANGED <<images, links, diskVars, restoreVars, rc>>

\* add_to_board(conn, import_board_id, image_name, ...)
RaceLink(p) ==
    /\ race[p].pc = "link"
    /\ race' = [race EXCEPT ![p].pc = "done"]
    /\ links' = IF race[p].dry THEN links ELSE links \cup {<<race[p].board, p>>}
    /\ UNCHANGED <<images, boards, diskVars, restoreVars, rc>>

RaceNext == \E p \in Procs : RaceLookup(p) \/ RaceCreate(p) \/ RaceLink(p)

InitRace ==
    /\ images = {NewRow(f) : f \in Files}
    /\ \/ boards = {}
       \/ \E n \in BoardNames : boards = {[id |-> 1, name |-> n]}
    /\ links = {}
    /\ thumbs = [f \in Files |-> "none"]
    /\ thumbDir = FALSE
    /\ InitTools
    /\ \E d \in [Procs -> BOOLEAN] :
          race = [p \in Procs |-> [pc |-> "lookup", dry |-> d[p], found |-> 0, board |-> 0]]

Next == RestoreNext

Spec == Init /\ [][Next]_vars

SpecReclass == InitReclass /\ [][ReclassNext]_vars

SpecRace == InitRace /\ [][RaceNext]_vars

----------------------------------------------------------------------------
\* Properties of the reindex tool (Spec)

Processed(f) == fstate[f] # "unseen"

\* C1: reconciliation is idempotent: a non-dry run started with every file's
\* identity already in the images table performs no INSERT into images and no
\* INSERT into board_images.
C1_Idempotent ==
    (run.pc # "idle" /\ ~run.dry /\ Files \subseteq startCat)
        => /\ Inserted(log) = {}
           /\ Linked(log) = {}
           /\ \A f \in Files : Processed(f) => fstate[f] = "skipped"

\* A second real run, finished, directly over the rows and links a first run made.
C1_SecondRun ==
    /\ run.pc = "done"
    /\ ~run.dry
    /\ Files \subseteq startCat
    /\ \A f \in Files : fstate[f] = "skipped"
    /\ \E f \in Files : NewRow(f) \in images /\ <<run.board, f>> \in links

\* C2: a --dry-run reconciliation mutates nothing: no step of a dry run changes
\* the images, boards or board_images table, a thumbnail file or the
\* thumbnails directory, whatever --gen-thumbs and --verbose are.
C2_DryRunFrame ==
    [][(Running /\ run.dry) => UNCHANGED <<images, boards, links, txn, thumbs, thumbDir>>]_vars

\* A finished dry run that had a board to create, a row to insert and a
\* thumbnail to make.
C2_DryRunDone ==
    /\ run.pc = "done"
    /\ run.dry
    /\ run.gen
    /\ BoardLookup(Today) = {}
    /\ \E f \in Files : /\ fstate[f] = "thumbnailed"
                        /\ Entry("insert", f) \in log
                        /\ thumbs[f] = "none"

\* C3: a dry run reports exactly the actions (board creation, image insert,
\* board link, thumbnail creation) the real run with the same flags from the
\* same starting state performs; stated for the pairs of runs in which no file
\* errored.
C3_DryReportsRealActions ==
    (run.pc = "done" /\ ~run.dry /\ lastDry.valid /\ \A f \in Files : fstate[f] # "errored")
        => log = lastDry.log

\* C6: per-file isolation: a failing step of a file's pipeline never aborts the
\* run, and a finished run has been through every file of the scan.
C6_PerFileIsolation ==
    /\ run.pc # "aborted"
    /\ run.pc = "done" => \A f \in Files : Processed(f)

\* C8: partial progress survives a crash: every row whose insert_image call
\* returned before a real run was interrupted is in the images table, and the
\* next run skips exactly the files already cataloged, those rows included.
C8_CrashKeepsInserted ==
    /\ (run.pc = "crashed" /\ ~run.dry) => Inserted(log) \subseteq Names(images)
    /\ run.pc # "crashed" =>
          \A f \in crashIns : /\ f \in Names(images)
                              /\ f \in startCat
                              /\ Processed(f) => fstate[f] = "skipped"
    /\ \A f \in Files \ startCat : fstate[f] # "skipped"

\* The run after a crash, finished: it skipped a file the crashed run had
\* inserted and cataloged one the crashed run had not reached.
C8_RunAfterCrash ==
    /\ run.pc = "done"
    /\ ~run.dry
    /\ \E f \in crashIns : fstate[f] = "skipped"
    /\ \E g \in Files \ startCat : fstate[g] \in {"linked", "thumbnailed"}

\* C9: thumbnail derivation never overwrites: a thumbnail file that exists is
\* never written again, so each thumbnail is written at most once.
C9_NoOverwrite ==
    [][\A f \in Files : thumbs[f] # "none" => thumbs'[f] = thumbs[f]]_vars

\* ensure_thumbnail returned in a real run for a file whose thumbnail existed.
C9_CalledOnExisting ==
    /\ ~run.dry
    /\ run.gen
    /\ \E f \in Files : fstate[f] = "thumbnailed" /\ thumbs[f] = "old"

\* C10: resource release on failure: no file is in the errored state with its
\* image handle still open.
C10_ClosedOnError ==
    \A f \in Files : fstate[f] = "errored" => ~open[f]

\* C11: the dated board is created lazily: a finished real run has inserted a
\* boards row only if it linked at least one image into it, and a run that
\* found every scanned file cataloged has inserted none.
C11_BoardCreatedLazily ==
    (run.pc = "done" /\ ~run.dry) =>
        /\ Entry("board", 0) \in log => Linked(log) # {}
        /\ Files \subseteq startCat => Entry("board", 0) \notin log

\* Rows the reindex tool inserted (the application's rows carry its own stamps).
Reconciled == {r \in images : r.created # "app"}

----------------------------------------------------------------------------
\* Properties of the reclassification tools (SpecReclass)

\* The tool ran to normal completion and issued its UPDATE.
RcCompleted == rc.pc = "idle" /\ rc'.pc = "exited" /\ ~rc'.dry /\ rc'.exit = 0

\* C4: after a non-dry reclassification, every row linked to the board the tool
\* resolved has the tool's category and origin, every other column of every row
\* is unchanged, unlinked rows are unchanged, and so are boards and board_images.
C4_ReclassFrame ==
    [][RcCompleted =>
         /\ boards' = boards
         /\ links' = links
         /\ \E b \in boards : b.id = rc'.board /\ Lower(b.name) = Lower(rc'.name)
         /\ Names(images') = Names(images)
         /\ Cardinality(images') = Cardinality(images)
         /\ \A r \in images : \E q \in images' :
               /\ q.name = r.name
               /\ q.inter = r.inter
               /\ q.created = r.created
               /\ q.updated = r.updated
               /\ IF <<rc'.board, r.name>> \in links
                  THEN q.cat = TargetCategory(rc'.tool) /\ q.origin = TargetOrigin(rc'.tool)
                  ELSE q = r]_vars

\* A completed real reclassification that changed a linked row and met an
\* unlinked one.
C4_Reclassified ==
    /\ rc.pc = "exited"
    /\ ~rc.dry
    /\ rc.exit = 0
    /\ rc.updated > 0
    /\ \E r \in images : r.name \in rc.names /\ r.created = "app"
                         /\ r.cat = TargetCategory(rc.tool)
                         /\ r.cat # AppRow(r.name).cat
    /\ \E r \in images : r.name \notin rc.names

\* C5: when no board matches --board-name, the tool ends with a non-zero exit
\* status and the images, boards and board_images tables are as before.
C5_UnknownBoard ==
    [][(rc.pc = "idle" /\ rc'.pc = "exited"
            /\ \A b \in boards : Lower(b.name) # Lower(rc'.name))
         => (rc'.exit # 0 /\ UNCHANGED <<images, boards, links>>)]_vars

\* The tool exited on an unknown name while boards with linked images exist.
C5_ExitedUnknown ==
    /\ rc.pc = "exited"
    /\ rc.exit # 0
    /\ rc.name = "Missing"
    /\ links # {}

----------------------------------------------------------------------------
\* Properties of two racing runs (SpecRace)

TodayBoards == {b \in boards : b.name = Today}

RaceDone == \A p \in Procs : race[p].pc = "done" /\ ~race[p].dry

RaceLinkedTo(p) == <<race[p].board, p>> \in links

====
